---- MODULE Spec2Model ----
(***************************************************************************)
(* Model of mr-contractor-viewer: the structuring tool dot2mr.py (a        *)
(* dependency graph to a Sequence/Parallel expression tree) and the        *)
(* flattening tool mr2dot.py (an expression tree to a dependency graph).   *)
(* Task names are the integers 1..MaxNodes; their numeric order stands for *)
(* the lexicographic order of the names.                                   *)
(***************************************************************************)
EXTENDS Integers, Sequences, FiniteSets, TLC

MaxNodes == 4      \* most tasks of an input graph
MaxEdges == 4      \* most edges of an input graph
MaxLeaves == 5     \* most Leaves of a well-formed input tree
DefectLeaves == 3  \* most Leaves of a tree a malformed input is made from
MaxFan == 3        \* most middle tasks of a fork-join input graph
MaxChain == 5      \* most tasks of a linear-chain input graph
TimerTicks == 2    \* clock ticks in the interval of update_timer (1000 ms)
MaxEdits == 3      \* most user edits of the panes

VARIABLES
    dot_file,              \* dot2mr: the graph document it is given
    nx_graph,              \* dot2mr main: the graph read from dot_file
    tree,                  \* mr2dot: the tree convert_to_dot is given
    pc,                    \* position in the tools' main functions
    components,            \* dot2mr main: list of weakly connected components
    ci,                    \* dot2mr main: index of the next component
    component_structures,  \* dot2mr main: trees of the components done
    final_structure,       \* dot2mr main: the composed tree
    stdout,                \* what the tools printed, in order
    exit_code,             \* process exit status of the tool that ran last
    dot_content,           \* mr2dot: document convert_to_dot returned
    flat,                  \* document obtained by flattening final_structure
    last_updated,          \* gui: the pane the user changed last
    is_updating,           \* gui: sync_editors is writing the panes
    update_timer,          \* gui: the single-shot QTimer
    panes,                 \* gui: text of custom_text, dot_text, mermaid_text
    graph_content,         \* gui: what the graph display shows
    status_message,        \* gui: the message show_error left in the status bar
    gui_pc,                \* gui: position of the event loop or of sync_editors
    branch,                \* gui: the branch sync_editors took
    writes,                \* gui: setPlainText calls sync_editors has yet to make
    render,                \* gui: what sync_editors displays after its writes
    edits,                 \* number of user edits so far
    edited,                \* the pane of the latest user edit
    since_edit,            \* clock ticks since the latest user edit
    runs,                  \* runs of sync_editors since the latest user edit
    burst_runs,            \* runs of sync_editors since the burst of edits began
    burst_edits            \* user edits of the burst: each while the timer ran

toolVars == <<dot_file, nx_graph, tree, pc, components, ci, component_structures,
              final_structure, stdout, exit_code, dot_content, flat>>

guiVars == <<last_updated, is_updating, update_timer, panes, graph_content,
             status_message, gui_pc, branch, writes, render>>

historyVars == <<edits, edited, since_edit, runs, burst_runs, burst_edits>>

vars == <<toolVars, guiVars, historyVars>>

----------------------------------------------------------------------------
(* Generic helpers over sequences and sets *)

Range(s) == {s[k] : k \in DOMAIN s}

Min(S) == CHOOSE x \in S : \A y \in S : x <= y

\* Python sorted(): the elements of a set of names in ascending order
RECURSIVE sorted(_)
sorted(S) == IF S = {} THEN <<>> ELSE <<Min(S)>> \o sorted(S \ {Min(S)})

RECURSIVE Reverse(_)
Reverse(s) == IF s = <<>> THEN <<>> ELSE Reverse(Tail(s)) \o <<Head(s)>>

\* s without repeated elements, first occurrences kept (dict/set insertion)
RECURSIVE Dedup(_, _)
Dedup(s, acc) ==
    IF s = <<>> THEN acc
    ELSE Dedup(Tail(s), IF Head(s) \in Range(acc) THEN acc ELSE Append(acc, Head(s)))

\* Transitive closure of a set of pairs over the node set N: the paths
\* through one more node of N at each step
RECURSIVE Closure(_, _)
Closure(R, N) ==
    IF N = {} THEN R
    ELSE LET k == CHOOSE n \in N : TRUE
         IN Closure(R \cup {<<e[1], f[2]>> : e \in {x \in R : x[2] = k},
                                             f \in {x \in R : x[1] = k}},
                    N \ {k})

----------------------------------------------------------------------------
(* Expression trees: {'type': 'Node', 'name': n} and                      *)
(* {'type': 'Sequence' | 'Parallel', 'children': [...]}                   *)

Leaf(n) == [type |-> "Node", name |-> n]
Block(t, c) == [type |-> t, children |-> c]
None == [type |-> "None"]

RECURSIVE LeafSeq(_)
LeafSeq(t) ==
    IF t.type = "Node" THEN <<t.name>>
    ELSE IF t.type = "None" THEN <<>>
    ELSE LET RECURSIVE cat(_)
             cat(k) == IF k > Len(t.children) THEN <<>>
                       ELSE LeafSeq(t.children[k]) \o cat(k + 1)
         IN cat(1)

----------------------------------------------------------------------------
(* networkx DiGraph as built by nx.nx_agraph.from_agraph: nodes in the     *)
(* order listed, each node's successors in the order its edges were added  *)

Graph(nl, el) == [nodes |-> nl, edges |-> el]

successors(g, n) ==
    LET out == SelectSeq(g.edges, LAMBDA e : e[1] = n)
    IN Dedup([k \in DOMAIN out |-> out[k][2]], <<>>)

predecessors(g, n) ==
    LET inc == SelectSeq(g.edges, LAMBDA e : e[2] = n)
    IN Dedup([k \in DOMAIN inc |-> inc[k][1]], <<>>)

\* G.subgraph(component): the nodes of the component and the edges among them
subgraph(g, comp) ==
    Graph(SelectSeq(g.nodes, LAMBDA n : n \in comp),
          SelectSeq(g.edges, LAMBDA e : e[1] \in comp /\ e[2] \in comp))

\* Connected that follows the edges forwards only
RECURSIVE ConnectedForward(_, _)
ConnectedForward(g, S) ==
    LET S2 == S \cup {e[2] : e \in {x \in Range(g.edges) : x[1] \in S}}
    IN IF S2 = S THEN S ELSE ConnectedForward(g, S2)

\* nodes joined to n when the direction of the edges is ignored
RECURSIVE Connected(_, _)
Connected(g, S) ==
    LET S2 == S \cup {e[2] : e \in {x \in Range(g.edges) : x[1] \in S}}
                \cup {e[1] : e \in {x \in Range(g.edges) : x[2] \in S}}
    IN IF S2 = S THEN S ELSE Connected(g, S2)

\* weakly_connected_components: one set per component, in the order of the
\* first node of each component in the graph's node order
RECURSIVE wcc_from(_, _, _, _)
wcc_from(g, k, seen, acc) ==
    IF k > Len(g.nodes) THEN acc
    ELSE IF g.nodes[k] \in seen THEN wcc_from(g, k + 1, seen, acc)
    ELSE LET c == Connected(g, {g.nodes[k]})
         IN wcc_from(g, k + 1, seen \cup c, Append(acc, c))

weakly_connected_components(g) == wcc_from(g, 1, {}, <<>>)

\* inner loops of topological_generations: every child of every node of the
\* generation loses one unit of in-degree; a child that reaches zero joins
\* the next generation
RECURSIVE RelaxChildren(_, _, _)
RelaxChildren(children, indeg, zero) ==
    IF children = <<>> THEN [indeg |-> indeg, zero |-> zero]
    ELSE LET c == Head(children)
             d == indeg[c] - 1
         IN RelaxChildren(Tail(children), [indeg EXCEPT ![c] = d],
                          IF d = 0 THEN Append(zero, c) ELSE zero)

RECURSIVE RelaxGeneration(_, _, _, _)
RelaxGeneration(g, this, indeg, zero) ==
    IF this = <<>> THEN [indeg |-> indeg, zero |-> zero]
    ELSE LET r == RelaxChildren(successors(g, Head(this)), indeg, zero)
         IN RelaxGeneration(g, Tail(this), r.indeg, r.zero)

\* GenerationLoop that never reports the nodes left over by a cycle
RECURSIVE GenerationLoopUnchecked(_, _, _, _)
GenerationLoopUnchecked(g, zero, indeg, acc) ==
    IF zero = <<>>
    THEN [layers |-> acc, unfeasible |-> FALSE]
    ELSE LET r == RelaxGeneration(g, zero, indeg, <<>>)
         IN GenerationLoopUnchecked(g, r.zero, r.indeg, Append(acc, zero))

RECURSIVE GenerationLoop(_, _, _, _)
GenerationLoop(g, zero, indeg, acc) ==
    IF zero = <<>>
    THEN [layers |-> acc, unfeasible |-> \E n \in DOMAIN indeg : indeg[n] > 0]
    ELSE LET r == RelaxGeneration(g, zero, indeg, <<>>)
         IN GenerationLoop(g, r.zero, r.indeg, Append(acc, zero))

\* nx.topological_generations: the layers, or NetworkXUnfeasible on a cycle
topological_generations(g) ==
    LET indeg == [n \in Range(g.nodes) |-> Len(predecessors(g, n))]
    IN GenerationLoop(g, SelectSeq(g.nodes, LAMBDA n : indeg[n] = 0), indeg, <<>>)

----------------------------------------------------------------------------
(* dot2mr.py: generate_component_structure *)

LeafNodes(path) == [k \in DOMAIN path |-> Leaf(path[k])]

\* follow_path that stops after the first step
RECURSIVE follow_path_one_step(_, _)
follow_path_one_step(g, path) ==
    LET successors_ == successors(g, path[Len(path)])
    IN IF Len(path) >= 2 \/ Len(successors_) # 1 THEN path
       ELSE IF Len(predecessors(g, successors_[1])) # 1 THEN path
       ELSE follow_path_one_step(g, Append(path, successors_[1]))

\* follow_path that does not look at the predecessors of the next node
RECURSIVE follow_path_any_predecessor(_, _)
follow_path_any_predecessor(g, path) ==
    LET successors_ == successors(g, path[Len(path)])
    IN IF Len(successors_) # 1 \/ Len(path) > Len(g.nodes) THEN path
       ELSE follow_path_any_predecessor(g, Append(path, successors_[1]))

\* the while-loop of find_direct_sequence_paths: extend the path while the
\* current node has one successor and that successor has one predecessor
RECURSIVE follow_path(_, _)
follow_path(g, path) ==
    LET successors_ == successors(g, path[Len(path)])
    IN IF Len(successors_) # 1 THEN path
       ELSE IF Len(predecessors(g, successors_[1])) # 1 THEN path
       ELSE follow_path(g, Append(path, successors_[1]))

\* the dict sequence_paths: start node -> path, for paths longer than one
find_direct_sequence_paths(g, start_nodes) ==
    LET starts == {n \in Range(start_nodes) : Len(follow_path(g, <<n>>)) > 1}
    IN [n \in starts |-> follow_path(g, <<n>>)]

\* node_or_sequence that marks only the start of a sequence as processed
node_or_sequence_start_only(g, node) ==
    LET sequence_paths == find_direct_sequence_paths(g, <<node>>)
    IN IF node \in DOMAIN sequence_paths
       THEN [item |-> Block("Sequence", LeafNodes(sequence_paths[node])),
             done |-> {node}]
       ELSE [item |-> Leaf(node), done |-> {node}]

\* one node that may start a sequence (lines 63-73 and 89-99): the item it
\* contributes and the nodes it marks as processed
node_or_sequence(g, node) ==
    LET sequence_paths == find_direct_sequence_paths(g, <<node>>)
    IN IF node \in DOMAIN sequence_paths
       THEN [item |-> Block("Sequence", LeafNodes(sequence_paths[node])),
             done |-> Range(sequence_paths[node])]
       ELSE [item |-> Leaf(node), done |-> {node}]

\* key of successor_groups: tuple(sorted(successors(node)))
successor_key(g, node) == sorted(Range(successors(g, node)))

\* the dict successor_groups as the list of its values, in insertion order
successor_groups(g, current_layer) ==
    LET keys == Dedup([k \in DOMAIN current_layer |->
                          successor_key(g, current_layer[k])], <<>>)
    IN [j \in DOMAIN keys |->
          SelectSeq(current_layer, LAMBDA n : successor_key(g, n) = keys[j])]

\* loop over successor_groups.items() (lines 86-103)
RECURSIVE process_groups(_, _, _, _)
process_groups(g, groups, processed_nodes, parallel_children) ==
    IF groups = <<>>
    THEN [processed_nodes |-> processed_nodes, parallel_children |-> parallel_children]
    ELSE LET nodes == Head(groups)
         IN IF Len(nodes) = 1
            THEN LET r == node_or_sequence(g, nodes[1])
                 IN process_groups(g, Tail(groups), processed_nodes \cup r.done,
                                   Append(parallel_children, r.item))
            ELSE process_groups(g, Tail(groups), processed_nodes \cup Range(nodes),
                                parallel_children \o LeafNodes(nodes))

\* what one generation appends to structure (lines 105-109)
append_layer(structure, parallel_children) ==
    IF Len(parallel_children) > 1
    THEN Append(structure, Block("Parallel", parallel_children))
    ELSE IF Len(parallel_children) = 1
    THEN Append(structure, parallel_children[1])
    ELSE structure

\* loop over enumerate(layers) (lines 55-109); i is 1-based here
RECURSIVE layer_loop(_, _, _, _, _)
layer_loop(g, layers, i, processed_nodes, structure) ==
    IF i > Len(layers) THEN structure
    ELSE LET current_layer == SelectSeq(layers[i], LAMBDA n : n \notin processed_nodes)
         IN IF current_layer = <<>>
            THEN layer_loop(g, layers, i + 1, processed_nodes, structure)
            ELSE IF Len(current_layer) = 1 /\ i < Len(layers)
            THEN LET r == node_or_sequence(g, current_layer[1])
                 IN layer_loop(g, layers, i + 1, processed_nodes \cup r.done,
                               Append(structure, r.item))
            ELSE LET r == process_groups(g, successor_groups(g, current_layer),
                                         processed_nodes, <<>>)
                 IN layer_loop(g, layers, i + 1, r.processed_nodes,
                               append_layer(structure, r.parallel_children))

\* combine_structure that wraps a single item too
combine_structure_always(structure) == Block("Sequence", structure)

\* combine_structure that wraps the items in a Parallel
combine_structure_parallel(structure) ==
    IF Len(structure) = 1 THEN structure[1] ELSE Block("Parallel", structure)

\* lines 111-115: one item is returned as it is, more are wrapped
combine_structure(structure) ==
    IF Len(structure) = 1 THEN structure[1] ELSE Block("Sequence", structure)

\* generate_component_structure: raised is the ValueError of a cycle
generate_component_structure(g) ==
    LET gen == topological_generations(g)
        layers == gen.layers
    IN IF gen.unfeasible THEN [raised |-> TRUE, value |-> None]
       ELSE IF layers = <<>> THEN [raised |-> FALSE, value |-> None]
       ELSE IF Len(layers) = 1 /\ Len(layers[1]) = 1
       THEN [raised |-> FALSE, value |-> Leaf(layers[1][1])]
       ELSE [raised |-> FALSE,
             value |-> combine_structure(layer_loop(g, layers, 1, {}, <<>>))]

\* one line of printed structured notation: indentation, then a block
\* opener ("Sequence {"), a task name, a closing brace or nothing, then
\* possibly a comma
Line(indent, open, name, close, comma) ==
    [indent |-> indent, open |-> open, name |-> name, close |-> close, comma |-> comma]

WithComma(lines) ==
    [k \in DOMAIN lines |->
        IF k = Len(lines) THEN [lines[k] EXCEPT !.comma = TRUE] ELSE lines[k]]

\* format_structure: the lines of the text it returns
RECURSIVE format_structure(_, _)
format_structure(struct, indent_level) ==
    IF struct.type = "Node"
    THEN <<Line(indent_level, "", struct.name, FALSE, FALSE)>>
    ELSE IF struct.type = "None" THEN <<>>
    ELSE LET n == Len(struct.children)
             RECURSIVE join(_)
             join(k) ==
                 IF k > n THEN <<>>
                 ELSE (IF k < n
                       THEN WithComma(format_structure(struct.children[k], indent_level + 1))
                       ELSE format_structure(struct.children[k], indent_level + 1))
                      \o join(k + 1)
             children_str == IF n = 0 THEN <<Line(0, "", 0, FALSE, FALSE)>> ELSE join(1)
         IN <<Line(indent_level, struct.type, 0, FALSE, FALSE)>>
            \o children_str
            \o <<Line(indent_level, "", 0, TRUE, FALSE)>>

----------------------------------------------------------------------------
(* mr2dot.py: convert_to_dot and its helpers.  A list the code may leave   *)
(* as None is a record with the flag none; raised is an exception.         *)

\* extract_nodes: the names of the Leaves, left to right
RECURSIVE extract_nodes(_)
extract_nodes(node) ==
    IF node.type = "Node" THEN <<node.name>>
    ELSE LET RECURSIVE extend(_)
             extend(k) == IF k > Len(node.children) THEN <<>>
                          ELSE extract_nodes(node.children[k]) \o extend(k + 1)
         IN extend(1)

\* extract_entry_nodes that takes a Parallel's first child only
RECURSIVE extract_entry_nodes_first(_)
extract_entry_nodes_first(node) ==
    IF node.type = "Node" THEN <<node.name>>
    ELSE IF node.children # <<>> THEN extract_entry_nodes_first(node.children[1]) ELSE <<>>

\* extract_entry_nodes: the first nodes in execution
RECURSIVE extract_entry_nodes(_)
extract_entry_nodes(node) ==
    IF node.type = "Node" THEN <<node.name>>
    ELSE IF node.type = "Sequence"
    THEN IF node.children # <<>> THEN extract_entry_nodes(node.children[1]) ELSE <<>>
    ELSE LET RECURSIVE extend(_)
             extend(k) == IF k > Len(node.children) THEN <<>>
                          ELSE extract_entry_nodes(node.children[k]) \o extend(k + 1)
         IN extend(1)

\* connect that joins every prev to the first curr only
connect_first_entry(prev_exit_nodes, entry_nodes) ==
    IF entry_nodes = <<>> THEN <<>>
    ELSE [k \in 1..Len(prev_exit_nodes) |-> <<prev_exit_nodes[k], entry_nodes[1]>>]

\* the nested loops of lines 95-97: every prev paired with every curr
connect(prev_exit_nodes, entry_nodes) ==
    LET m == Len(entry_nodes)
    IN [k \in 1..(Len(prev_exit_nodes) * m) |->
          <<prev_exit_nodes[((k - 1) \div m) + 1], entry_nodes[((k - 1) % m) + 1]>>]

Edges(e, x, n, r) == [edges |-> e, exits |-> x, none |-> n, raised |-> r]

\* generate_edges: (all_edges, exit nodes)
RECURSIVE generate_edges(_)
generate_edges(node) ==
    IF node.type = "Node" THEN Edges(<<>>, <<node.name>>, FALSE, FALSE)
    ELSE IF node.type = "Sequence"
    THEN LET RECURSIVE loop(_, _)
             \* acc.exits / acc.none are prev_exit_nodes
             loop(k, acc) ==
                 IF k > Len(node.children) \/ acc.raised THEN acc
                 ELSE LET child == node.children[k]
                          c == generate_edges(child)
                          joined == IF ~acc.none /\ acc.exits # <<>>
                                    THEN connect(acc.exits, extract_entry_nodes(child))
                                    ELSE <<>>
                      IN loop(k + 1, Edges(acc.edges \o c.edges \o joined,
                                           c.exits, c.none, c.raised))
         IN loop(1, Edges(<<>>, <<>>, TRUE, FALSE))
    ELSE LET RECURSIVE loop(_, _)
             loop(k, acc) ==
                 IF k > Len(node.children) \/ acc.raised THEN acc
                 ELSE LET c == generate_edges(node.children[k])
                      IN \* extend(None) raises TypeError
                         loop(k + 1, Edges(acc.edges \o c.edges, acc.exits \o c.exits,
                                           FALSE, c.raised \/ c.none))
         IN loop(1, Edges(<<>>, <<>>, FALSE, FALSE))

Document(n, e) == [nodes |-> n, edges |-> e]
NoDocument == Document(<<>>, <<>>)

\* convert_to_dot: the document (its node lines, then its edge lines), or an
\* exception; a tree of None (empty text) cannot be subscripted
convert_to_dot(t) ==
    IF t.type = "None" THEN [raised |-> TRUE, doc |-> NoDocument]
    ELSE LET all_nodes == extract_nodes(t)
             r == generate_edges(t)
         IN IF r.raised THEN [raised |-> TRUE, doc |-> NoDocument]
            ELSE [raised |-> FALSE,
                  doc |-> Document(sorted(Range(all_nodes)), Dedup(r.edges, <<>>))]

----------------------------------------------------------------------------
(* Inputs *)

Ascending(n) == [k \in 1..n |-> k]
NodeOrders(n) == {Ascending(n), Reverse(Ascending(n))}

\* all pairs of distinct nodes, by position of source then of target
AllPairs(order) ==
    LET n == Len(order)
        grid == [k \in 1..(n * n) |-> <<order[((k - 1) \div n) + 1], order[((k - 1) % n) + 1]>>]
    IN SelectSeq(grid, LAMBDA e : e[1] # e[2])

\* graph documents: the nodes 1..n listed in ascending or descending order,
\* then at most MaxEdges edges listed by source and target in that order
\* the subsequences of s with at most k elements
RECURSIVE SubSeqsUpTo(_, _)
SubSeqsUpTo(s, k) ==
    IF s = <<>> \/ k = 0 THEN {<<>>}
    ELSE SubSeqsUpTo(Tail(s), k)
         \cup {<<Head(s)>> \o x : x \in SubSeqsUpTo(Tail(s), k - 1)}

SmallGraphInputs(maxNodes, maxEdges) ==
    UNION {{Document(order, el) : el \in SubSeqsUpTo(AllPairs(order), maxEdges)} :
           order \in UNION {NodeOrders(n) : n \in 0..maxNodes}}

\* fork-join graphs: the first node listed, k middle nodes, the last node
DiamondInputs ==
    UNION {{Document(order, SelectSeq(AllPairs(order),
                LAMBDA e : (e[1] = order[1] /\ e[2] \notin {order[1], order[k + 2]})
                           \/ (e[2] = order[k + 2] /\ e[1] \notin {order[1], order[k + 2]}))) :
              order \in NodeOrders(k + 2)} : k \in 2..MaxFan}

\* linear chains, along the listing order or against it
ChainInputs ==
    UNION {UNION {{Document(order, SelectSeq(AllPairs(order), LAMBDA e : e[2] = e[1] + 1)),
                   Document(order, SelectSeq(AllPairs(order), LAMBDA e : e[1] = e[2] + 1))} :
              order \in NodeOrders(n)} : n \in 2..MaxChain}

GraphInputs(maxNodes, maxEdges) ==
    SmallGraphInputs(maxNodes, maxEdges) \cup DiamondInputs \cup ChainInputs

\* well-formed trees whose Leaves are, left to right, the given names
RECURSIVE TreesOver(_)
RECURSIVE ForestsOver(_)
SplitForests(names) ==
    UNION {{<<t>> \o f : t \in TreesOver(SubSeq(names, 1, k)),
                         f \in ForestsOver(SubSeq(names, k + 1, Len(names)))} :
           k \in 1..(Len(names) - 1)}
ForestsOver(names) == {<<t>> : t \in TreesOver(names)} \cup SplitForests(names)
TreesOver(names) ==
    IF Len(names) = 1 THEN {Leaf(names[1])}
    ELSE {Block(ty, f) : ty \in {"Sequence", "Parallel"}, f \in SplitForests(names)}

WellFormedTrees(maxLeaves) ==
    UNION {TreesOver(order) : order \in UNION {NodeOrders(n) : n \in 1..maxLeaves}}

\* t with every Leaf called name replaced by sub
RECURSIVE ReplaceLeaf(_, _, _)
ReplaceLeaf(t, name, sub) ==
    IF t.type = "Node" THEN (IF t.name = name THEN sub ELSE t)
    ELSE Block(t.type, [k \in DOMAIN t.children |-> ReplaceLeaf(t.children[k], name, sub)])

\* malformed trees: a well-formed tree in which one Leaf became an empty
\* block, or took the name of another Leaf
MalformedTrees(defectLeaves) ==
    UNION {UNION {{ReplaceLeaf(t, n, Block("Sequence", <<>>)),
                   ReplaceLeaf(t, n, Block("Parallel", <<>>))}
                  \cup {ReplaceLeaf(t, n, Leaf(m)) : m \in Range(LeafSeq(t)) \ {n}} :
                  n \in Range(LeafSeq(t))} :
           t \in WellFormedTrees(defectLeaves)}

\* None is what parse_custom_format returns for an empty text
TreeInputs(maxLeaves, defectLeaves) ==
    WellFormedTrees(maxLeaves) \cup MalformedTrees(defectLeaves) \cup {None}

----------------------------------------------------------------------------
(* What the tools print *)

Printed(kind, lines, doc) == [kind |-> kind, lines |-> lines, doc |-> doc]
ErrorLine == Printed("error", <<>>, NoDocument)
EmptyGraphLine == Printed("empty", <<>>, NoDocument)

\* nx.nx_agraph.from_agraph(pgv.AGraph(filename)): nodes and edges in the
\* order the document lists them
from_agraph(doc) == Graph(doc.nodes, doc.edges)

NoGraph == Graph(<<>>, <<>>)
NoResult == [raised |-> FALSE, doc |-> NoDocument]

----------------------------------------------------------------------------
(* gui.py: the data of GraphConverterApp.  A text is known by its kind     *)
(* (empty after strip(); good: the conversions accept it; bad: the         *)
(* conversion to a tree raises) and by the user edit it stems from.        *)

PaneNames == {"custom", "dot", "mermaid"}

Text(kind, ver) == [kind |-> kind, ver |-> ver]
Empty == Text("empty", 0)

\* setup_ui: the text custom_text is given before its signal is connected
DefaultText == Text("good", 0)

\* QTimer: stopped, or running with some ticks left; start(msec) restarts it
Stopped == [active |-> FALSE, remaining |-> 0]
start_if_inactive(timer, ticks) ==
    IF timer.active THEN timer ELSE [active |-> TRUE, remaining |-> ticks]
start(timer, ticks) == [active |-> TRUE, remaining |-> ticks]

\* the graph display: its initial label, clear_graph, render_graph
Initializing == [shown |-> "initializing", text |-> Empty]
Cleared == [shown |-> "cleared", text |-> Empty]
Rendered(text) == [shown |-> "rendered", text |-> text]

\* __init__ and setup_ui up to the initial call of sync_editors
GuiConstructed ==
    /\ last_updated = "custom"
    /\ is_updating = FALSE
    /\ update_timer = Stopped
    /\ panes = [p \in PaneNames |-> IF p = "custom" THEN DefaultText ELSE Empty]
    /\ graph_content = Initializing
    /\ status_message = FALSE
    /\ branch = "none"
    /\ writes = <<>>
    /\ render = [graph |-> Initializing, error |-> FALSE]
    /\ edits = 0
    /\ edited = "none"
    /\ since_edit = 0
    /\ runs = 0
    /\ burst_runs = 0
    /\ burst_edits = 0

\* the tools run without the window
GuiNotStarted == GuiConstructed /\ gui_pc = "off"

----------------------------------------------------------------------------
(* dot2mr.py main *)

\* lines 133-136: read the graph, list its components
ReadGraph ==
    /\ pc = "dot2mr"
    /\ nx_graph' = from_agraph(dot_file)
    /\ components' = weakly_connected_components(from_agraph(dot_file))
    /\ ci' = 1
    /\ component_structures' = <<>>
    /\ pc' = "components"
    /\ UNCHANGED <<dot_file, tree, final_structure, stdout, exit_code, dot_content, flat>>
    /\ UNCHANGED <<guiVars, historyVars>>

\* lines 139-146: one iteration of the loop over the components
ProcessComponent ==
    /\ pc = "components"
    /\ ci <= Len(components)
    /\ LET r == generate_component_structure(subgraph(nx_graph, components[ci]))
       IN IF r.raised
          THEN /\ stdout' = Append(stdout, ErrorLine)
               /\ exit_code' = 1
               /\ pc' = "exit"
               /\ UNCHANGED <<ci, component_structures>>
          ELSE /\ component_structures' = Append(component_structures, r.value)
               /\ ci' = ci + 1
               /\ UNCHANGED <<stdout, exit_code, pc>>
    /\ UNCHANGED <<dot_file, nx_graph, tree, components, final_structure, dot_content, flat>>
    /\ UNCHANGED <<guiVars, historyVars>>

\* lines 148-156: compose the components and print
Compose ==
    /\ pc = "components"
    /\ ci > Len(components)
    /\ IF Len(component_structures) > 1
       THEN /\ final_structure' = Block("Parallel", component_structures)
            /\ stdout' = Append(stdout, Printed("structure",
                   format_structure(Block("Parallel", component_structures), 0), NoDocument))
       ELSE IF Len(component_structures) = 1
       THEN /\ final_structure' = component_structures[1]
            /\ stdout' = Append(stdout, Printed("structure",
                   format_structure(component_structures[1], 0), NoDocument))
       ELSE /\ final_structure' = None
            /\ stdout' = Append(stdout, EmptyGraphLine)
    /\ exit_code' = 0
    /\ pc' = "dot2mr_done"
    /\ UNCHANGED <<dot_file, nx_graph, tree, components, ci, component_structures,
                   dot_content, flat>>
    /\ UNCHANGED <<guiVars, historyVars>>

\* the structured tree is flattened again by convert_to_dot
FlattenResult ==
    /\ pc = "dot2mr_done"
    /\ final_structure # None
    /\ flat' = convert_to_dot(final_structure)
    /\ pc' = "flattened"
    /\ UNCHANGED <<dot_file, nx_graph, tree, components, ci, component_structures,
                   final_structure, stdout, exit_code, dot_content>>
    /\ UNCHANGED <<guiVars, historyVars>>

----------------------------------------------------------------------------
(* mr2dot.py main, lines 162-168, from the parsed tree on *)

Mr2DotMain ==
    /\ pc = "mr2dot"
    /\ LET r == convert_to_dot(tree)
       IN IF r.raised
          THEN /\ stdout' = Append(stdout, ErrorLine)
               /\ exit_code' = 1
               /\ pc' = "exit"
               /\ UNCHANGED dot_content
          ELSE /\ dot_content' = r.doc
               /\ stdout' = Append(stdout, Printed("dot", <<>>, r.doc))
               /\ exit_code' = 0
               /\ pc' = "mr2dot_done"
    /\ UNCHANGED <<dot_file, nx_graph, tree, components, ci, component_structures,
                   final_structure, flat>>
    /\ UNCHANGED <<guiVars, historyVars>>

\* the printed document is given to dot2mr
FeedDot ==
    /\ pc = "mr2dot_done"
    /\ dot_file' = dot_content
    /\ pc' = "dot2mr"
    /\ UNCHANGED <<nx_graph, tree, components, ci, component_structures,
                   final_structure, stdout, exit_code, dot_content, flat>>
    /\ UNCHANGED <<guiVars, historyVars>>

----------------------------------------------------------------------------
(* Specifications *)

InitCommon ==
    /\ nx_graph = NoGraph
    /\ components = <<>>
    /\ ci = 1
    /\ component_structures = <<>>
    /\ final_structure = None
    /\ stdout = <<>>
    /\ exit_code = 0
    /\ dot_content = NoDocument
    /\ flat = NoResult
    /\ GuiNotStarted

\* a graph document is structured, the tree is flattened again
Init ==
    /\ dot_file \in GraphInputs(MaxNodes, MaxEdges)
    /\ tree = None
    /\ pc = "dot2mr"
    /\ InitCommon

Next == ReadGraph \/ ProcessComponent \/ Compose \/ FlattenResult

Spec == Init /\ [][Next]_vars

\* a tree is flattened, the document is structured and flattened again
InitTree ==
    /\ tree \in TreeInputs(MaxLeaves, DefectLeaves)
    /\ dot_file = NoDocument
    /\ pc = "mr2dot"
    /\ InitCommon

NextTree == Mr2DotMain \/ FeedDot \/ ReadGraph \/ ProcessComponent \/ Compose \/ FlattenResult

SpecTree == InitTree /\ [][NextTree]_vars

----------------------------------------------------------------------------
(* Properties.  The graph notions below are stated on the documents, not   *)
(* on the operators of the tools.                                          *)

NodeSet(doc) == Range(doc.nodes)
EdgeSet(doc) == Range(doc.edges)
Reach(doc) == Closure(EdgeSet(doc), NodeSet(doc))
HasCycle(doc) == \E n \in NodeSet(doc) : <<n, n>> \in Reach(doc)

\* the weakly connected component of n
Linked(doc) ==
    Closure(EdgeSet(doc) \cup {<<e[2], e[1]>> : e \in EdgeSet(doc)}, NodeSet(doc))
ComponentOf(doc, n) == {n} \cup {m \in NodeSet(doc) : <<n, m>> \in Linked(doc)}
ComponentsOf(doc) ==
    LET linked == Linked(doc)
    IN {{n} \cup {m \in NodeSet(doc) : <<n, m>> \in linked} : n \in NodeSet(doc)}

NoRepeats(s) == Cardinality(Range(s)) = Len(s)

RECURSIVE HasEmptyBlock(_)
HasEmptyBlock(t) ==
    /\ t.type \in {"Sequence", "Parallel"}
    /\ \/ t.children = <<>>
       \/ \E k \in DOMAIN t.children : HasEmptyBlock(t.children[k])

\* every Sequence and Parallel of t has at least two children
RECURSIVE NoSmallBlock(_)
NoSmallBlock(t) ==
    \/ t.type = "Node"
    \/ /\ t.type \in {"Sequence", "Parallel"}
       /\ Len(t.children) >= 2
       /\ \A k \in DOMAIN t.children : NoSmallBlock(t.children[k])

WellFormed(t) == NoSmallBlock(t) /\ NoRepeats(LeafSeq(t))
Malformed(t) ==
    /\ t.type # "None"
    /\ HasEmptyBlock(t) \/ ~NoRepeats(LeafSeq(t))

Structured == pc \in {"dot2mr_done", "flattened"} /\ final_structure # None

\* C1: when an acyclic graph has been structured and the tree flattened
\* again, the flattened graph has the nodes of the input graph and the same
\* reachability relation.
C1_GraphRoundTrip ==
    pc = "flattened" =>
        /\ ~flat.raised
        /\ NodeSet(flat.doc) = NodeSet(dot_file)
        /\ Reach(flat.doc) = Reach(dot_file)

\* C2: when a well-formed tree has been flattened, the graph structured and
\* the new tree flattened, the new tree has the Leaves of the input tree and
\* its graph the reachability relation of the input tree's graph.
C2_TreeRoundTrip ==
    (pc = "flattened" /\ WellFormed(tree)) =>
        /\ Range(LeafSeq(final_structure)) = Range(LeafSeq(tree))
        /\ NoRepeats(LeafSeq(final_structure))
        /\ ~flat.raised
        /\ Reach(flat.doc) = Reach(dot_content)

\* C3: on a graph with a directed cycle the structuring tool never prints
\* structured notation and never completes; once its loop has met the cyclic
\* component it has printed the error only and exited with status 1.
C3_CycleRejected ==
    \/ /\ \A k \in DOMAIN stdout : stdout[k].kind # "structure"
       /\ pc \notin {"dot2mr_done", "flattened"}
       /\ ~(pc = "components" /\ ci > Len(components))
       /\ pc = "exit" => (exit_code = 1 /\ stdout = <<ErrorLine>>
                          /\ final_structure = None)
    \/ ~HasCycle(dot_file)

\* a cyclic component is rejected after an acyclic one was structured
C3_Witness ==
    /\ pc = "exit"
    /\ HasCycle(dot_file)
    /\ Len(component_structures) >= 1

\* C4: a tree with an empty Sequence or Parallel, or with a task name in two
\* Leaves, makes the flattening tool fail: no document is returned or printed.
C4_MalformedRejected ==
    (Malformed(tree) /\ pc # "mr2dot") =>
        /\ pc = "exit"
        /\ exit_code = 1
        /\ dot_content = NoDocument
        /\ \A k \in DOMAIN stdout : stdout[k].kind # "dot"

\* C5: the Leaves of the structured tree are the tasks of the graph, each
\* exactly once; so are the Leaves of each component's tree and the tasks of
\* that component.
C5_Partition ==
    /\ \A k \in DOMAIN component_structures :
          /\ Range(LeafSeq(component_structures[k])) = components[k]
          /\ NoRepeats(LeafSeq(component_structures[k]))
    /\ Structured =>
          /\ Range(LeafSeq(final_structure)) = NodeSet(dot_file)
          /\ NoRepeats(LeafSeq(final_structure))

\* a sequence-run that took nodes of later generations stands beside a Leaf
C5_Witness ==
    /\ Structured
    /\ final_structure.type = "Sequence"
    /\ \E k \in DOMAIN final_structure.children :
          LET c == final_structure.children[k]
          IN /\ c.type = "Parallel"
             /\ \E j \in DOMAIN c.children : c.children[j].type = "Sequence"
             /\ \E j \in DOMAIN c.children : c.children[j].type = "Node"

\* a is the source, d the sink and every other node a middle task
IsDiamond(doc, a, d) ==
    LET M == NodeSet(doc) \ {a, d}
    IN /\ a \in NodeSet(doc) /\ d \in NodeSet(doc) /\ a # d
       /\ Cardinality(M) >= 2
       /\ EdgeSet(doc) = {<<a, m>> : m \in M} \cup {<<m, d>> : m \in M}

\* C6: a fork-join graph structures to Sequence{source, Parallel{the middle
\* tasks as Leaves}, sink}, and flattening that tree gives exactly the edges
\* of the graph, each once.
C6_Diamond ==
    \A a, d \in NodeSet(dot_file) :
        (pc \in {"dot2mr_done", "flattened"} /\ IsDiamond(dot_file, a, d)) =>
            /\ final_structure.type = "Sequence"
            /\ Len(final_structure.children) = 3
            /\ final_structure.children[1] = Leaf(a)
            /\ final_structure.children[3] = Leaf(d)
            /\ LET p == final_structure.children[2]
               IN /\ p.type = "Parallel"
                  /\ \A k \in DOMAIN p.children : p.children[k].type = "Node"
                  /\ {p.children[k].name : k \in DOMAIN p.children}
                        = NodeSet(dot_file) \ {a, d}
                  /\ Len(p.children) = Cardinality(NodeSet(dot_file)) - 2
            /\ pc = "flattened" =>
                  /\ ~flat.raised
                  /\ EdgeSet(flat.doc) = EdgeSet(dot_file)
                  /\ NoRepeats(flat.doc.edges)

C6_Witness ==
    /\ pc = "flattened"
    /\ \E a, d \in NodeSet(dot_file) : IsDiamond(dot_file, a, d)
    /\ Cardinality(NodeSet(dot_file)) >= 5

\* the graph is one path through all its nodes
IsChain(doc) ==
    /\ Cardinality(NodeSet(doc)) >= 2
    /\ Cardinality(EdgeSet(doc)) = Cardinality(NodeSet(doc)) - 1
    /\ ~HasCycle(doc)
    /\ \A n \in NodeSet(doc) :
          /\ Cardinality({e \in EdgeSet(doc) : e[1] = n}) <= 1
          /\ Cardinality({e \in EdgeSet(doc) : e[2] = n}) <= 1

RECURSIVE WalkFrom(_, _)
WalkFrom(doc, n) ==
    LET out == {e \in EdgeSet(doc) : e[1] = n}
    IN IF out = {} THEN <<n>> ELSE <<n>> \o WalkFrom(doc, (CHOOSE e \in out : TRUE)[2])

ChainPath(doc) ==
    WalkFrom(doc, CHOOSE n \in NodeSet(doc) : \A e \in EdgeSet(doc) : e[2] # n)

\* C7: a linear chain structures to one Sequence of its Leaves in path
\* order, and flattening it gives exactly the edges of the chain, each once.
C7_Chain ==
    (pc \in {"dot2mr_done", "flattened"} /\ IsChain(dot_file)) =>
        /\ final_structure =
              [type |-> "Sequence",
               children |-> [k \in 1..Len(ChainPath(dot_file)) |->
                                [type |-> "Node", name |-> ChainPath(dot_file)[k]]]]
        /\ pc = "flattened" =>
              /\ ~flat.raised
              /\ EdgeSet(flat.doc) = EdgeSet(dot_file)
              /\ NoRepeats(flat.doc.edges)

C7_Witness ==
    /\ pc = "flattened"
    /\ IsChain(dot_file)
    /\ Cardinality(NodeSet(dot_file)) >= 4

\* C8: an acyclic graph with k >= 2 components structures to a root
\* Parallel with k children, one per component and holding its tasks; the
\* child of a two-node component is the Sequence of its edge; flattening
\* gives no edge between two components.
C8_Components ==
    (pc \in {"dot2mr_done", "flattened"} /\ Cardinality(ComponentsOf(dot_file)) >= 2) =>
        /\ final_structure.type = "Parallel"
        /\ Len(final_structure.children) = Cardinality(ComponentsOf(dot_file))
        /\ \A k \in DOMAIN final_structure.children :
              LET c == final_structure.children[k]
                  tasks == Range(LeafSeq(c))
              IN /\ tasks \in ComponentsOf(dot_file)
                 /\ \A j \in DOMAIN final_structure.children :
                       j # k => Range(LeafSeq(final_structure.children[j])) # tasks
                 /\ Cardinality(tasks) = 2 =>
                       /\ c.type = "Sequence"
                       /\ Len(c.children) = 2
                       /\ c.children[1].type = "Node" /\ c.children[2].type = "Node"
                       /\ <<c.children[1].name, c.children[2].name>> \in EdgeSet(dot_file)
        /\ pc = "flattened" =>
              \A e \in EdgeSet(flat.doc) : <<e[1], e[2]>> \in Linked(dot_file)

\* two independent two-node chains
C8_Witness ==
    /\ pc = "flattened"
    /\ Cardinality(ComponentsOf(dot_file)) = 2
    /\ \A c \in ComponentsOf(dot_file) : Cardinality(c) = 2

\* C9: every Sequence and Parallel of a structured tree, and of each
\* component's tree, has at least two children; a graph of one task and no
\* edge structures to the bare Leaf.
C9_NoSingletonWrappers ==
    /\ \A k \in DOMAIN component_structures : NoSmallBlock(component_structures[k])
    /\ Structured =>
          /\ NoSmallBlock(final_structure)
          /\ Cardinality(NodeSet(dot_file)) = 1 =>
                final_structure = [type |-> "Node", name |-> dot_file.nodes[1]]

\* a single sequence-run is the whole tree: nothing wraps it
C9_Witness ==
    /\ Structured
    /\ final_structure.type = "Sequence"
    /\ \A k \in DOMAIN final_structure.children : final_structure.children[k].type = "Node"
    /\ Len(final_structure.children) = Cardinality(NodeSet(dot_file))

SortedNames(s) == \A k \in 1..(Len(s) - 1) : s[k] < s[k + 1]
EdgeBefore(e, f) == e[1] < f[1] \/ (e[1] = f[1] /\ e[2] < f[2])
SortedEdges(s) == \A k \in 1..(Len(s) - 1) : EdgeBefore(s[k], s[k + 1])

\* C10: the document of a well-formed tree lists each task once, in sorted
\* order, and each edge once, in sorted order.
C10_SortedOutput ==
    (WellFormed(tree) /\ pc = "mr2dot_done") =>
        /\ SortedNames(dot_content.nodes)
        /\ NodeSet(dot_content) = Range(LeafSeq(tree))
        /\ SortedEdges(dot_content.edges)

----------------------------------------------------------------------------
(* Independence of the listing order *)

\* dot2mr.py lines 136-149 as a function of the graph read
RECURSIVE component_loop(_, _, _)
component_loop(g, comps, k) ==
    IF k > Len(comps) THEN <<>>
    ELSE <<generate_component_structure(subgraph(g, comps[k]))>>
         \o component_loop(g, comps, k + 1)

main_final_structure(doc) ==
    LET g == from_agraph(doc)
        results == component_loop(g, weakly_connected_components(g), 1)
        structs == [k \in DOMAIN results |-> results[k].value]
    IN IF \E k \in DOMAIN results : results[k].raised THEN None
       ELSE IF Len(structs) > 1 THEN Block("Parallel", structs)
       ELSE IF Len(structs) = 1 THEN structs[1]
       ELSE None

MinEdge(S) == CHOOSE e \in S : \A f \in S : e = f \/ EdgeBefore(e, f)

RECURSIVE sorted_edges(_)
sorted_edges(S) == IF S = {} THEN <<>> ELSE <<MinEdge(S)>> \o sorted_edges(S \ {MinEdge(S)})

\* the same tasks and the same edges, listed in ascending order
Relisted(doc) == Document(sorted(NodeSet(doc)), sorted_edges(EdgeSet(doc)))

\* C11: two documents with the same task set and the same edge set, listed
\* in different orders, are structured to the identical tree: the tree of a
\* document is the tree of the same tasks and edges listed in ascending order.
C11_ListingOrder ==
    pc = "dot2mr_done" => final_structure = main_final_structure(Relisted(dot_file))

----------------------------------------------------------------------------
(* Dependencies kept, parallel grouping safe *)

RECURSIVE Subtrees(_)
Subtrees(t) ==
    IF t.type \in {"Node", "None"} THEN {t}
    ELSE {t} \cup UNION {Subtrees(t.children[k]) : k \in DOMAIN t.children}

\* C14: structuring never loses a dependency: for every edge u -> v of an
\* acyclic graph, v is reachable from u in the flattening of its tree.
C14_NoLostDependency ==
    pc = "flattened" =>
        /\ ~flat.raised
        /\ EdgeSet(dot_file) \subseteq Reach(flat.doc)

\* a sequence-run stands beside another child of a Parallel, and an edge of
\* the graph is kept by a path only
C14_Witness ==
    /\ pc = "flattened"
    /\ \E p \in Subtrees(final_structure) :
          /\ p.type = "Parallel"
          /\ \E k \in DOMAIN p.children : p.children[k].type = "Sequence"
    /\ \E e \in EdgeSet(dot_file) :
          e \notin EdgeSet(flat.doc) /\ e \in Reach(flat.doc)

\* C15: two tasks under different children of the same Parallel of the
\* tree of an acyclic graph have no directed path between them in the graph,
\* in either direction.
C15_ParallelSafe ==
    pc = "dot2mr_done" =>
        LET reach == Reach(dot_file)
        IN \A p \in Subtrees(final_structure) :
              p.type = "Parallel" =>
                  \A i, j \in DOMAIN p.children :
                      i # j =>
                          \A a \in Range(LeafSeq(p.children[i])),
                             b \in Range(LeafSeq(p.children[j])) :
                              <<a, b>> \notin reach

\* a Parallel holds a sequence-run beside a Leaf, and Leaves grouped by
\* their successors
C15_Witness ==
    /\ pc = "dot2mr_done"
    /\ \E p \in Subtrees(final_structure) :
          /\ p.type = "Parallel"
          /\ \E i, j \in DOMAIN p.children :
                /\ p.children[i].type = "Sequence"
                /\ p.children[j].type = "Node"
    /\ \E p \in Subtrees(final_structure) :
          /\ p.type = "Parallel"
          /\ \E i, j \in DOMAIN p.children :
                /\ i # j
                /\ p.children[i].type = "Node"
                /\ p.children[j].type = "Node"
                /\ successor_key(nx_graph, p.children[i].name) # <<>>
                /\ successor_key(nx_graph, p.children[i].name)
                      = successor_key(nx_graph, p.children[j].name)

----------------------------------------------------------------------------
(* Edge synthesis of a Sequence *)

\* the tasks of a subtree without a successor / a predecessor inside it
NoSuccessorIn(t) ==
    {x \in Range(LeafSeq(t)) :
        \A e \in Range(generate_edges(t).edges) : e[1] # x}
NoPredecessorIn(t) ==
    {y \in Range(LeafSeq(t)) :
        \A e \in Range(generate_edges(t).edges) : e[2] # y}

\* the full join of the exits of one child with the entries of the next
Join(c, d) == Range(generate_edges(c).exits) \X Range(extract_entry_nodes(d))

\* the equation of one Sequence node with children c1..cn
SequenceSynthesis(s) ==
    LET c == s.children
        n == Len(c)
        r == generate_edges(s)
    IN /\ Range(r.edges) =
             UNION {Range(generate_edges(c[k]).edges) : k \in 1..n}
             \cup UNION {Join(c[k], c[k + 1]) : k \in 1..(n - 1)}
       /\ n > 0 => /\ r.none = generate_edges(c[n]).none
                   /\ r.exits = generate_edges(c[n]).exits
                   /\ extract_entry_nodes(s) = extract_entry_nodes(c[1])

\* C13: the edges of a Sequence are its children's edges and, for every
\* consecutive pair of children, every exit of the earlier joined to every
\* entry of the later; its exits are its last child's exits and its entries
\* its first child's entries; in a well-formed tree these exits and entries
\* are the tasks without a successor and without a predecessor in the subtree.
C13_SequenceEdges ==
    pc = "mr2dot_done" =>
        \A s \in Subtrees(tree) :
            /\ s.type = "Sequence" => SequenceSynthesis(s)
            /\ WellFormed(tree) =>
                  /\ Range(generate_edges(s).exits) = NoSuccessorIn(s)
                  /\ Range(extract_entry_nodes(s)) = NoPredecessorIn(s)

\* a Sequence joins a child of several exits to a child of several entries,
\* and a later pair of its children as well
C13_Witness ==
    /\ pc = "mr2dot_done"
    /\ \E s \in Subtrees(tree) :
          /\ s.type = "Sequence"
          /\ Len(s.children) >= 3
          /\ \E k \in 1..(Len(s.children) - 1) :
                /\ Len(generate_edges(s.children[k]).exits) > 1
                /\ Len(extract_entry_nodes(s.children[k + 1])) > 1

----------------------------------------------------------------------------
(* mr2dot.py: parse_custom_format, over the lines format_structure writes *)

\* line.strip(): the indentation is dropped
strip(line) == [line EXCEPT !.indent = 0]

\* a line that is empty after strip() is not kept (line 7)
IsBlank(line) == line.open = "" /\ line.name = 0 /\ ~line.close /\ ~line.comma

\* the tests lines[idx].strip() == '}' and lines[idx].strip() == '},'
IsClose(line) == line.open = "" /\ line.close /\ ~line.comma
NeverCloseComma(line) == FALSE
IsCloseComma(line) == line.open = "" /\ line.close /\ line.comma

\* current_line.rstrip(','): the name of a Leaf line; 0 names no task (the
\* text of a closing line taken as a name)
node_name(line) == IF line.close THEN 0 ELSE line.name

\* parse(lines, start_idx): the node and the index after it; 1-based here
RECURSIVE parse(_, _)
parse(lines, start_idx) ==
    IF start_idx > Len(lines) THEN [node |-> None, idx |-> start_idx]
    ELSE LET current_line == lines[start_idx]
         IN IF current_line.open \in {"Sequence", "Parallel"}
            THEN LET RECURSIVE children_loop(_, _)
                     children_loop(idx, children) ==
                         IF idx > Len(lines) \/ IsClose(lines[idx])
                         THEN [idx |-> idx, children |-> children]
                         ELSE IF IsCloseComma(lines[idx])
                         THEN [idx |-> idx + 1, children |-> children]
                         ELSE LET r == parse(lines, idx)
                              IN children_loop(r.idx,
                                    IF r.node # None THEN Append(children, r.node)
                                    ELSE children)
                     w == children_loop(start_idx + 1, <<>>)
                     idx == IF w.idx <= Len(lines) /\ IsClose(lines[w.idx])
                            THEN w.idx + 1 ELSE w.idx
                 IN [node |-> Block(current_line.open, w.children), idx |-> idx]
            ELSE [node |-> Leaf(node_name(current_line)), idx |-> start_idx + 1]

parse_custom_format(text) ==
    LET kept == SelectSeq(text, LAMBDA line : ~IsBlank(line))
        lines == [k \in DOMAIN kept |-> strip(kept[k])]
    IN parse(lines, 1).node

----------------------------------------------------------------------------
(* dot2mr prints a tree, mr2dot parses the text and flattens the tree *)

\* S, and each tree of S with a block of one child around it or around one
\* of its Leaves
Wrapped(S) ==
    S \cup {Block(ty, <<t>>) : ty \in {"Sequence", "Parallel"}, t \in S}
      \cup UNION {{ReplaceLeaf(t, n, Block(ty, <<Leaf(n)>>)) :
                      ty \in {"Sequence", "Parallel"}, n \in Range(LeafSeq(t))} :
                  t \in S}

TextTrees(maxLeaves, defectLeaves) ==
    WellFormedTrees(maxLeaves) \cup MalformedTrees(defectLeaves)
        \cup Wrapped(Wrapped(WellFormedTrees(defectLeaves)))

\* dot2mr.py line 156: print(format_structure(final_structure))
PrintStructure ==
    /\ pc = "print"
    /\ stdout' = Append(stdout, Printed("structure",
                                        format_structure(final_structure, 0), NoDocument))
    /\ pc' = "printed"
    /\ UNCHANGED <<dot_file, nx_graph, tree, components, ci, component_structures,
                   final_structure, exit_code, dot_content, flat>>
    /\ UNCHANGED <<guiVars, historyVars>>

\* mr2dot.py lines 155-162: the text printed is the file mr2dot reads
ParseFile ==
    /\ pc = "printed"
    /\ tree' = parse_custom_format(stdout[Len(stdout)].lines)
    /\ pc' = "mr2dot"
    /\ UNCHANGED <<dot_file, nx_graph, components, ci, component_structures,
                   final_structure, stdout, exit_code, dot_content, flat>>
    /\ UNCHANGED <<guiVars, historyVars>>

InitText ==
    /\ final_structure \in TextTrees(MaxLeaves, DefectLeaves)
    /\ tree = None
    /\ dot_file = NoDocument
    /\ pc = "print"
    /\ nx_graph = NoGraph
    /\ components = <<>>
    /\ ci = 1
    /\ component_structures = <<>>
    /\ stdout = <<>>
    /\ exit_code = 0
    /\ dot_content = NoDocument
    /\ flat = NoResult
    /\ GuiNotStarted

NextText == PrintStructure \/ ParseFile \/ Mr2DotMain

SpecText == InitText /\ [][NextText]_vars

\* C12: for every tree whose blocks have at least one child each,
\* parse_custom_format(format_structure(T)) is T: the same kinds, the same
\* children in the same order at every depth.
C12_PrintParse ==
    (pc = "mr2dot" /\ stdout # <<>> /\ ~HasEmptyBlock(final_structure)) =>
        tree = final_structure

\* a nested block is the last child of its parent, another nested block is
\* followed by a sibling, and a block closes right after a block
C12_Witness ==
    /\ pc = "mr2dot"
    /\ stdout # <<>>
    /\ ~HasEmptyBlock(final_structure)
    /\ \E p, q \in Subtrees(final_structure) :
          /\ p.type # "Node" /\ q.type # "Node"
          /\ Len(p.children) > 1 /\ p.children[Len(p.children)].type # "Node"
          /\ Len(q.children) > 1 /\ q.children[1].type # "Node"
    /\ \E p \in Subtrees(final_structure) :
          /\ p.type # "Node"
          /\ Len(p.children) = 1
          /\ p.children[1].type # "Node"

----------------------------------------------------------------------------
(* gui.py: text_changed, sync_editors and the event loop *)

\* text_changed without the test of is_updating
text_changed_unguarded(source) ==
    /\ last_updated' = source
    /\ update_timer' = start(update_timer, TimerTicks)

\* text_changed(source), lines 143-151: the slot of a pane's textChanged
text_changed(source) ==
    IF is_updating
    THEN UNCHANGED <<last_updated, update_timer>>
    ELSE /\ last_updated' = source
         /\ update_timer' = start(update_timer, TimerTicks)

\* the setPlainText calls of a run of sync_editors, in order, as pairs
\* <<pane, text>>.  An empty source empties the other two panes; a custom
\* text that does not convert writes nothing; a dot or mermaid text is
\* converted to the other of the two, and to custom if structuring accepts it
planned_writes(source, text) ==
    IF text.kind = "empty"
    THEN IF source = "custom" THEN <<<<"dot", Empty>>, <<"mermaid", Empty>>>>
         ELSE IF source = "dot" THEN <<<<"custom", Empty>>, <<"mermaid", Empty>>>>
         ELSE <<<<"custom", Empty>>, <<"dot", Empty>>>>
    ELSE IF source = "custom"
    THEN IF text.kind = "good" THEN <<<<"dot", text>>, <<"mermaid", text>>>> ELSE <<>>
    ELSE <<<<IF source = "dot" THEN "mermaid" ELSE "dot", text>>>>
         \o (IF text.kind = "good" THEN <<<<"custom", text>>>> ELSE <<>>)

\* what the run displays after its writes: clear_graph, render_graph or
\* nothing, and whether show_error is called
planned_render(source, text, shown) ==
    IF text.kind = "empty" THEN [graph |-> Cleared, error |-> FALSE]
    ELSE IF text.kind = "good" THEN [graph |-> Rendered(text), error |-> FALSE]
    ELSE IF source = "custom" THEN [graph |-> shown, error |-> TRUE]
    ELSE [graph |-> Rendered(text), error |-> TRUE]

Count(n) == IF n < 2 THEN n + 1 ELSE n

\* sync_editors lines 153-158: a call returns at once while a run is on,
\* else the run begins and reads the pane of last_updated
sync_editors_enter ==
    IF is_updating
    THEN UNCHANGED <<is_updating, gui_pc, branch, writes, render, runs, burst_runs>>
    ELSE /\ is_updating' = TRUE
         /\ gui_pc' = "sync"
         /\ branch' = last_updated
         /\ writes' = planned_writes(last_updated, panes[last_updated])
         /\ render' = planned_render(last_updated, panes[last_updated], graph_content)
         /\ runs' = Count(runs)
         /\ burst_runs' = Count(burst_runs)

\* setup_ui line 141: the initial conversion
InitialSync ==
    /\ gui_pc = "setup_ui"
    /\ sync_editors_enter
    /\ UNCHANGED <<last_updated, update_timer, panes, graph_content, status_message,
                   edits, edited, since_edit, burst_edits, toolVars>>

\* the timer has run out: it stops (single shot) and its timeout calls
\* sync_editors (lines 86-88)
TimerFires ==
    /\ gui_pc = "idle"
    /\ update_timer.active
    /\ update_timer.remaining = 0
    /\ update_timer' = Stopped
    /\ sync_editors_enter
    /\ UNCHANGED <<last_updated, panes, graph_content, status_message,
                   edits, edited, since_edit, burst_edits, toolVars>>

\* one setPlainText of the run; the pane's textChanged calls text_changed
\* before setPlainText returns
SyncWrite ==
    /\ gui_pc = "sync"
    /\ writes # <<>>
    /\ panes' = [panes EXCEPT ![Head(writes)[1]] = Head(writes)[2]]
    /\ text_changed(Head(writes)[1])
    /\ writes' = Tail(writes)
    /\ UNCHANGED <<is_updating, graph_content, status_message, gui_pc, branch, render,
                   historyVars, toolVars>>

\* the end of the run: the display, the error message, and is_updating
\* reset by the early return (lines 165-166) or by finally (lines 315-316)
SyncReturn ==
    /\ gui_pc = "sync"
    /\ writes = <<>>
    /\ graph_content' = render.graph
    /\ status_message' = (status_message \/ render.error)
    /\ is_updating' = FALSE
    /\ gui_pc' = "idle"
    /\ UNCHANGED <<last_updated, update_timer, panes, branch, writes, render,
                   historyVars, toolVars>>

\* the user changes the text of a pane; textChanged calls text_changed
UserEdit(pane, kind) ==
    /\ gui_pc = "idle"
    /\ edits < MaxEdits
    /\ LET text == IF kind = "empty" THEN Empty ELSE Text(kind, edits + 1)
       IN /\ text # panes[pane]
          /\ panes' = [panes EXCEPT ![pane] = text]
    /\ text_changed(pane)
    /\ edits' = edits + 1
    /\ edited' = pane
    /\ since_edit' = 0
    /\ runs' = 0
    /\ burst_runs' = (IF update_timer.active THEN burst_runs ELSE 0)
    /\ burst_edits' = (IF update_timer.active THEN burst_edits + 1 ELSE 1)
    /\ UNCHANGED <<is_updating, graph_content, status_message, gui_pc, branch, writes,
                   render, toolVars>>

\* time passes while the timer runs
Tick ==
    /\ gui_pc = "idle"
    /\ update_timer.active
    /\ update_timer.remaining > 0
    /\ update_timer' = [update_timer EXCEPT !.remaining = @ - 1]
    /\ since_edit' = (IF since_edit < TimerTicks THEN since_edit + 1 ELSE since_edit)
    /\ UNCHANGED <<last_updated, is_updating, panes, graph_content, status_message,
                   gui_pc, branch, writes, render, edits, edited, runs, burst_runs,
                   burst_edits, toolVars>>

\* statusBar().showMessage(message, 5000): the message goes away
MessageExpires ==
    /\ gui_pc = "idle"
    /\ status_message
    /\ status_message' = FALSE
    /\ UNCHANGED <<last_updated, is_updating, update_timer, panes, graph_content,
                   gui_pc, branch, writes, render, historyVars, toolVars>>

InitGui ==
    /\ GuiConstructed
    /\ gui_pc = "setup_ui"
    /\ dot_file = NoDocument
    /\ nx_graph = NoGraph
    /\ tree = None
    /\ pc = "gui"
    /\ components = <<>>
    /\ ci = 1
    /\ component_structures = <<>>
    /\ final_structure = None
    /\ stdout = <<>>
    /\ exit_code = 0
    /\ dot_content = NoDocument
    /\ flat = NoResult

NextGui ==
    \/ InitialSync
    \/ TimerFires
    \/ SyncWrite
    \/ SyncReturn
    \/ \E pane \in PaneNames, kind \in {"empty", "good", "bad"} : UserEdit(pane, kind)
    \/ Tick
    \/ MessageExpires

SpecGui == InitGui /\ [][NextGui]_vars

\* the event loop goes on: the clock advances, a timeout that is due is
\* delivered, and a run of sync_editors goes to its end
SpecGuiFair ==
    /\ InitGui
    /\ [][NextGui]_vars
    /\ WF_vars(Tick)
    /\ WF_vars(TimerFires)
    /\ WF_vars(InitialSync)
    /\ WF_vars(SyncWrite)
    /\ WF_vars(SyncReturn)

----------------------------------------------------------------------------
(* The editor: no feedback of its own writes, debounced synchronisation *)

\* sync_editors has returned: is_updating is false; after a run nothing is
\* left that would start another run, and last_updated is the user's pane
C16_Returned ==
    gui_pc = "idle" =>
        /\ ~is_updating
        /\ runs > 0 => ~update_timer.active
        /\ edits > 0 => last_updated = edited

\* while sync_editors runs no step changes last_updated or the timer
C16_Quiet ==
    is_updating => (last_updated' = last_updated /\ update_timer' = update_timer)

\* a user edit is never ignored
C16_NextEdit ==
    edits' # edits =>
        /\ ~is_updating
        /\ last_updated' = edited'
        /\ update_timer'.active

\* C16: while sync_editors is running, the notifications of its own writes
\* change neither last_updated nor the timer; when it has returned, by any
\* path, is_updating is false and the next user edit is taken.
C16_NoFeedback ==
    /\ []C16_Returned
    /\ [][C16_Quiet /\ C16_NextEdit]_vars

\* after a run that wrote one pane and then failed, and after a run that
\* returned early on an empty source, a user edit has been taken
C16_Witness ==
    /\ gui_pc = "idle"
    /\ edits = 3
    /\ runs = 0
    /\ update_timer.active
    /\ last_updated = "custom"
    /\ panes["dot"].kind = "empty"
    /\ panes["mermaid"].kind = "empty"
    /\ panes["custom"].kind = "good"
    /\ graph_content = Cleared
    /\ status_message

\* at most one run after the latest edit and per burst of edits
C17_OneRun == runs <= 1 /\ burst_runs <= 1

\* a run caused by edits begins after a full interval without an edit and
\* converts from the pane edited last
C17_AfterQuiet ==
    (gui_pc = "sync" /\ edits > 0) =>
        /\ since_edit = TimerTicks
        /\ branch = edited
        /\ last_updated = edited

\* a run leaves the text of its source pane as it is
C17_SourceKept ==
    gui_pc = "sync" =>
        /\ panes'[branch] = panes[branch]
        /\ gui_pc' = "idle" =>
              \A p \in PaneNames \ {branch} :
                  panes'[branch].kind \in {"empty", "good"} => panes'[p] = panes'[branch]

\* every user edit restarts the timer with the full interval
C17_Restart ==
    edits' # edits => update_timer' = [active |-> TRUE, remaining |-> TimerTicks]

\* C17: every user edit restarts the single-shot timer; a burst of edits
\* causes exactly one run of sync_editors, which begins only after a full
\* interval without edits, converts from the pane edited last, leaves that
\* pane's text unchanged and rewrites the other panes only.
C17_Debounce ==
    /\ [](C17_OneRun /\ C17_AfterQuiet)
    /\ [][C17_SourceKept /\ C17_Restart]_vars
    /\ (edits > 0 /\ runs = 0) ~> (runs = 1)

\* a burst of three edits, the last of them in the dot pane, has caused its
\* one run, which rewrote the custom and mermaid panes from the dot pane
C17_Witness ==
    /\ gui_pc = "idle"
    /\ burst_edits = 3
    /\ runs = 1
    /\ burst_runs = 1
    /\ edited = "dot"
    /\ panes["dot"] = Text("good", 3)
    /\ panes["custom"] = Text("good", 3)
    /\ panes["mermaid"] = Text("good", 3)
    /\ graph_content = Rendered(Text("good", 3))

============================================================================
